---- MODULE Spec2Model ----
(***************************************************************************)
(* A model of pyvse2.py: the Game object of a MarketWatch Virtual Stock    *)
(* Exchange client, its position cache (self.positions), Game.transaction  *)
(* and the three-phase Game.rebalance.                                     *)
(*                                                                         *)
(* The game server is the environment.  It holds the account's signed      *)
(* holdings (store), answers every order with succeeded = true or false    *)
(* and applies an accepted order as a signed share change (Buy and Cover   *)
(* add shares, Sell and Short subtract).  The account's worth is whatever  *)
(* the server reports when Game.value is read.                             *)
(*                                                                         *)
(* Numbers: share counts, prices and the portfolio value are integers; a   *)
(* target weight is a rational <<num, den>>, so weight * value / price is  *)
(* the exact quotient (num * value) / (den * price) and int() is its       *)
(* truncation toward zero.  Binary floating point rounding is not          *)
(* modelled, nor is the float type of the quantities fabs() returns.       *)
(***************************************************************************)
EXTENDS Integers, Sequences, FiniteSets, TLC

\* ------------------------------------------------------------------ bounds
\* Number of rebalance calls in a behaviour.
MaxCalls == 2
\* Number of direct buy / sell / short / cover calls in a behaviour.
MaxTx == 1
\* Number of orders the game server rejects in a behaviour.
MaxRejects == 1

\* ------------------------------------------------------------ input sets
Tickers == {"A", "B", "C"}

\* Current quote of each ticker (Stock.price).
Price == [t \in Tickers |-> IF t = "B" THEN 7 ELSE 10]

\* Values the server reports as the account's worth (Game.value).
Worths == {100, 200}

\* Holdings of the account when the Game object is constructed.
NoHoldings == [t \in Tickers |-> 0]
InitStores ==
    { NoHoldings,
      [NoHoldings EXCEPT !["A"] = 10, !["B"] = -5],
      [NoHoldings EXCEPT !["A"] = 5] }

\* Target weights a caller passes to rebalance: ticker -> <<num, den>>.
Half == <<1, 2>>
Targets ==
    { [t \in {"A", "C"} |-> IF t = "A" THEN Half ELSE <<3, 10>>],
      [t \in {"B"} |-> Half],
      [t \in {"A", "B"} |-> IF t = "A" THEN <<0, 1>> ELSE <<-1, 2>>] }

\* Share counts a caller passes to buy / sell / short / cover.
TxShares == {5}

\* ------------------------------------------------------------- constants
STOCK_ACTIONS == {"Buy", "Sell", "Short", "Cover"}

VARIABLES
    store,          \* server: ticker -> signed shares held (0: not held)
    positions,      \* self.positions: held ticker -> Stock.position
    pc,             \* where the Game is: "idle" or a phase of rebalance
    stockWeights,   \* argument of the current / last rebalance call
    value,          \* local `value` of the current / last rebalance call
    todo,           \* tickers the current loop still has to act on
    orders,         \* orders submitted by the current / last operation
    store0,         \* history: store when the current / last rebalance began
    positions0,     \* history: positions after that call's first refresh
    second,         \* history: this call repeats a fully accepted call
    returned,       \* history: the last step was a return of rebalance
    lastTx,         \* history: action of the direct transaction just made
    calls, txs, rejects,
    raised,         \* history: the call a price lookup failed in, and its ticker
    unread,         \* history: the call a position read failed in, and the
                    \*          number of orders submitted before it
    now,            \* legacy client: datetime.now(), in whole seconds
    cache,          \* legacy client: Stock.cache (data: when it was fetched)
    answer,         \* legacy client, history: the last fetch_data call
    advances,       \* legacy client: number of clock advances so far
    who,            \* two games: the Game whose step is being run
    other           \* two games: attributes and account of the other Game

vars == <<store, positions, pc, stockWeights, value, todo, orders,
          store0, positions0, second, returned, lastTx, calls, txs, rejects,
          raised, unread, now, cache, answer, advances, who, other>>

\* The attributes of a Game, its account and the history kept about it.
gamevars == <<store, positions, pc, stockWeights, value, todo, orders,
              store0, positions0, second, returned, lastTx, calls, txs,
              rejects>>

\* The Stock of the legacy client.
cachevars == <<now, cache, answer, advances>>

\* The second Game of a session.
pairvars == <<who, other>>

\* The variables the operations of a Game in a healthy environment leave alone.
outside == <<raised, unread, cachevars, pairvars>>

\* -------------------------------------------------------------- helpers
Abs(n) == IF n < 0 THEN -n ELSE n

\* math.fabs
fabs(n) == Abs(n)

\* A sizing that rounds toward minus infinity instead (math.floor).
FloorOfQuotient(x, y) == x \div y

\* int(x / y) for y > 0: Python's int() truncates toward zero.
IntOfQuotient(x, y) == IF x >= 0 THEN x \div y ELSE -((-x) \div y)

\* Game.__getNumberOfSharesToInvest with moneyToSpend = weight * value.
NumberOfSharesToInvest(ticker, weight, val) ==
    IntOfQuotient(weight[1] * val, weight[2] * Price[ticker])

\* The rows of the holdings page: one per held ticker, with an unsigned
\* share count and the trade type.
HoldingsRows(st) ==
    { [ticker |-> t, shares |-> Abs(st[t]),
       type |-> IF st[t] < 0 THEN "Short" ELSE "Buy"] : t \in {u \in Tickers : st[u] # 0} }

\* The signed position __updatePositions derives from a row.
RowPosition(row) == IF row.type = "Short" THEN row.shares * (-1) ELSE row.shares

\* Game.__updatePositions: every row overwrites its ticker's entry; an entry
\* without a row is left as it is.
UpdatePositions(pos, rows) ==
    [t \in DOMAIN pos \cup {r.ticker : r \in rows} |->
        IF \E r \in rows : r.ticker = t
        THEN RowPosition(CHOOSE r \in rows : r.ticker = t)
        ELSE pos[t]]

\* Game.__positionNames
PositionNames(pos) == DOMAIN pos

\* The server applies an accepted order as a signed share change.
ApplyOrder(st, ticker, shares, action) ==
    [st EXCEPT ![ticker] = IF action \in {"Buy", "Cover"} THEN @ + shares ELSE @ - shares]

Order(ticker, shares, action, phase, ok, cur, des) ==
    [ticker |-> ticker, shares |-> shares, action |-> action, phase |-> phase,
     ok |-> ok, cur |-> cur, des |-> des]

\* A transaction that posts whatever action it is given.
AnyAction(action) == TRUE

\* The check of the action at the head of Game.transaction.
ValidAction(action) == action \in STOCK_ACTIONS

\* Game.transaction.  An unknown action returns before anything is sent;
\* otherwise the order is posted, and an accepted order is followed by a
\* position refresh.  `log` is the order log the submission is appended to.
Transaction(log, ticker, shares, action, phase, ok, cur, des) ==
    IF ~ValidAction(action)
    THEN /\ orders' = log
         /\ UNCHANGED <<store, positions, rejects>>
    ELSE /\ orders' = Append(log, Order(ticker, shares, action, phase, ok, cur, des))
         /\ IF ok
            THEN /\ store' = ApplyOrder(store, ticker, shares, action)
                 /\ positions' = UpdatePositions(positions, HoldingsRows(store'))
                 /\ UNCHANGED rejects
            ELSE /\ rejects < MaxRejects
                 /\ rejects' = rejects + 1
                 /\ UNCHANGED <<store, positions>>

\* ----------------------------------------------------------------- Init
\* Game.__init__: positions = {} followed by __updatePositions, which reads
\* `rows` from the holdings page.
Constructed(rows) ==
    /\ positions = UpdatePositions(<<>>, rows)
    /\ pc = "idle"
    /\ stockWeights = <<>>
    /\ value = 0
    /\ todo = {}
    /\ orders = <<>>
    /\ store0 = store
    /\ positions0 = positions
    /\ second = FALSE
    /\ returned = FALSE
    /\ lastTx = "none"
    /\ calls = 0 /\ txs = 0 /\ rejects = 0
    /\ raised = [call |-> 0, ticker |-> "none"]
    /\ unread = [call |-> 0, len |-> 0]

\* No Stock of the legacy client is in use.
NoData == [some |-> FALSE, at |-> 0]
NoStock ==
    /\ now = 0
    /\ cache = [timestamp |-> 0, data |-> NoData]
    /\ answer = [at |-> 0, data |-> NoData]
    /\ advances = 0

\* The session has one Game.
NoGame == [pc |-> "none"]
OneGame == who = 1 /\ other = NoGame

Init ==
    /\ store \in InitStores
    /\ Constructed(HoldingsRows(store))
    /\ NoStock
    /\ OneGame

\* ------------------------------------------------- direct transactions
\* Game.buy / sell / short / cover, and Game.transaction called directly
\* (then possibly with an action outside STOCK_ACTIONS).
UserTransaction(ticker, shares, action, ok) ==
    /\ pc = "idle"
    /\ txs < MaxTx
    /\ txs' = txs + 1
    /\ Transaction(<<>>, ticker, shares, action, "user", ok, 0, 0)
    /\ returned' = FALSE
    /\ lastTx' = action
    /\ UNCHANGED <<pc, stockWeights, value, todo, store0, positions0, second,
                   calls>>
    /\ UNCHANGED outside

\* ------------------------------------------------------------ rebalance
\* Loop conditions whose entry loop forgets the test `not in ownedTickers`.
EntryAllTargets(phase, pos, weights) ==
    CASE phase = "fresh"  -> DOMAIN weights
      [] phase = "exit"   -> {t \in DOMAIN pos : t \notin DOMAIN weights}
      [] phase = "adjust" -> {t \in DOMAIN pos : t \in DOMAIN weights}
      [] phase = "entry"  -> DOMAIN weights
      [] OTHER            -> {}

\* The tickers a phase's loop acts on, from the phase's snapshot of
\* ownedTickers (the keys of self.positions) and targetTickers.
PhaseTickers(phase, pos, weights) ==
    CASE phase = "fresh"  -> DOMAIN weights
      [] phase = "exit"   -> {t \in PositionNames(pos) : t \notin DOMAIN weights}
      [] phase = "adjust" -> {t \in PositionNames(pos) : t \in DOMAIN weights}
      [] phase = "entry"  -> {t \in DOMAIN weights : t \notin PositionNames(pos)}
      [] OTHER            -> {}

\* A phase order with the entry loop moved before the adjust loop.
EntryFirstPhase(phase) ==
    CASE phase = "exit"   -> "entry"
      [] phase = "entry"  -> "adjust"
      [] OTHER            -> "idle"

\* The order in which the else-branch of rebalance runs its three loops.
NextPhase(phase) ==
    CASE phase = "exit"   -> "adjust"
      [] phase = "adjust" -> "entry"
      [] OTHER            -> "idle"

\* Exit phase: the action that closes a position.
ExitAction(numSharesOwned) == IF numSharesOwned > 0 THEN "Sell" ELSE "Cover"

\* A branch table whose comparisons are not strict.
AdjustActionNonStrict(currentPosition, numSharesToHave) ==
    IF currentPosition < 0
    THEN IF numSharesToHave >= currentPosition THEN "Cover" ELSE "Short"
    ELSE IF numSharesToHave >= currentPosition THEN "Buy" ELSE "Sell"

\* Adjust phase: the action that moves currentPosition to numSharesToHave.
AdjustAction(currentPosition, numSharesToHave) ==
    IF currentPosition < 0
    THEN IF numSharesToHave > currentPosition THEN "Cover" ELSE "Short"
    ELSE IF numSharesToHave > currentPosition THEN "Buy" ELSE "Sell"

\* Adjust phase: the quantity of the order.
AdjustDifference(currentPosition, numSharesToHave) ==
    fabs(currentPosition - numSharesToHave)

\* A loop that stops at the first order the server rejects.
LoopStopsOnFailure(rest, ticker, ok) == IF ok THEN rest \ {ticker} ELSE {}

\* What is left of a loop after the iteration on `ticker`: transaction
\* returns normally whether or not the order was accepted, and the for loop
\* goes on with the other tickers.
LoopRest(rest, ticker, ok) == rest \ {ticker}

\* A sizing that reads Game.value again: `current` is what the server would
\* report as the account's worth at that point of the pass.
RereadValue(val, current) == current

\* The value a share count is sized with: the local `value` read once at the
\* start of rebalance, whatever the account is worth by now.
SizingValue(val, current) == val

\* rebalance up to its first loop: refresh (reading `rows` from the holdings
\* page), read the value, pick the branch.
RebalanceBegin(weights, worth, rows) ==
    /\ pc = "idle"
    /\ calls < MaxCalls
    /\ calls' = calls + 1
    /\ positions' = UpdatePositions(positions, rows)
    /\ value' = worth
    /\ stockWeights' = weights
    /\ pc' = IF Cardinality(DOMAIN positions') = 0 THEN "fresh" ELSE "exit"
    /\ todo' = PhaseTickers(pc', positions', weights)
    /\ orders' = <<>>
    /\ store0' = store
    /\ positions0' = positions'
    /\ second' = /\ returned
                 /\ weights = stockWeights
                 /\ worth = value
                 /\ \A i \in 1..Len(orders) : orders[i].ok
    /\ returned' = FALSE
    /\ lastTx' = "none"
    /\ UNCHANGED <<store, txs, rejects>>

RebalanceStart(weights, worth) ==
    /\ RebalanceBegin(weights, worth, HoldingsRows(store))
    /\ UNCHANGED outside

\* One iteration of the fresh-portfolio loop.
FreshStep(ticker, ok) ==
    /\ pc = "fresh"
    /\ ticker \in todo
    /\ \E current \in Worths :
         LET numSharesToBuy ==
                 NumberOfSharesToInvest(ticker, stockWeights[ticker],
                                        SizingValue(value, current))
         IN  Transaction(orders, ticker, numSharesToBuy, "Buy", "fresh", ok,
                         0, numSharesToBuy)
    /\ todo' = LoopRest(todo, ticker, ok)
    /\ UNCHANGED <<pc, stockWeights, value, store0, positions0, second,
                   returned, lastTx, calls, txs>>
    /\ UNCHANGED outside

\* One iteration of the exit loop that finds a ticker to close.
ExitStep(ticker, ok) ==
    /\ pc = "exit"
    /\ ticker \in todo
    /\ LET numSharesOwned == positions[ticker]
       IN  Transaction(orders, ticker, fabs(numSharesOwned),
                       ExitAction(numSharesOwned), "exit", ok, numSharesOwned, 0)
    /\ todo' = LoopRest(todo, ticker, ok)
    /\ UNCHANGED <<pc, stockWeights, value, store0, positions0, second,
                   returned, lastTx, calls, txs>>
    /\ UNCHANGED outside

\* One iteration of the adjust loop on a ticker both owned and targeted.
AdjustStep(ticker, ok) ==
    /\ pc = "adjust"
    /\ ticker \in todo
    /\ \E current \in Worths :
         LET numSharesToHave ==
                 NumberOfSharesToInvest(ticker, stockWeights[ticker],
                                        SizingValue(value, current))
             currentPosition == positions[ticker]
         IN  Transaction(orders, ticker,
                         AdjustDifference(currentPosition, numSharesToHave),
                         AdjustAction(currentPosition, numSharesToHave),
                         "adjust", ok, currentPosition, numSharesToHave)
    /\ todo' = LoopRest(todo, ticker, ok)
    /\ UNCHANGED <<pc, stockWeights, value, store0, positions0, second,
                   returned, lastTx, calls, txs>>
    /\ UNCHANGED outside

\* One iteration of the entry loop on a targeted ticker that is not owned.
EntryStep(ticker, ok) ==
    /\ pc = "entry"
    /\ ticker \in todo
    /\ \E current \in Worths :
         LET numSharesToBuy ==
                 NumberOfSharesToInvest(ticker, stockWeights[ticker],
                                        SizingValue(value, current))
         IN  Transaction(orders, ticker, numSharesToBuy, "Buy", "entry", ok,
                         0, numSharesToBuy)
    /\ todo' = LoopRest(todo, ticker, ok)
    /\ UNCHANGED <<pc, stockWeights, value, store0, positions0, second,
                   returned, lastTx, calls, txs>>
    /\ UNCHANGED outside

\* The end of a loop of the else-branch: refresh, then the next loop's
\* snapshot of ownedTickers and targetTickers (after the entry loop, the
\* final refresh and the return).
PhaseFinish(phase, rows) ==
    /\ pc = phase
    /\ todo = {}
    /\ positions' = UpdatePositions(positions, rows)
    /\ pc' = NextPhase(phase)
    /\ todo' = PhaseTickers(pc', positions', stockWeights)
    /\ returned' = (pc' = "idle")
    /\ UNCHANGED <<store, stockWeights, value, orders, store0, positions0,
                   second, lastTx, calls, txs, rejects>>

PhaseEnd(phase) ==
    /\ PhaseFinish(phase, HoldingsRows(store))
    /\ UNCHANGED outside

ExitEnd == PhaseEnd("exit")
AdjustEnd == PhaseEnd("adjust")
EntryEnd == PhaseEnd("entry")

\* The end of the fresh-portfolio loop: the final refresh and the return.
FreshFinish(rows) ==
    /\ pc = "fresh"
    /\ todo = {}
    /\ positions' = UpdatePositions(positions, rows)
    /\ pc' = "idle"
    /\ returned' = TRUE
    /\ UNCHANGED <<store, stockWeights, value, todo, orders, store0,
                   positions0, second, lastTx, calls, txs, rejects>>

FreshEnd ==
    /\ FreshFinish(HoldingsRows(store))
    /\ UNCHANGED outside

\* ----------------------------------------------------------------- Next
Next ==
    \/ \E t \in Tickers, n \in TxShares, a \in STOCK_ACTIONS \cup {"Hold"},
          ok \in BOOLEAN : UserTransaction(t, n, a, ok)
    \/ \E weights \in Targets, worth \in Worths : RebalanceStart(weights, worth)
    \/ \E t \in Tickers, ok \in BOOLEAN : FreshStep(t, ok)
    \/ FreshEnd
    \/ \E t \in Tickers, ok \in BOOLEAN : ExitStep(t, ok)
    \/ ExitEnd
    \/ \E t \in Tickers, ok \in BOOLEAN : AdjustStep(t, ok)
    \/ AdjustEnd
    \/ \E t \in Tickers, ok \in BOOLEAN : EntryStep(t, ok)
    \/ EntryEnd

Spec == Init /\ [][Next]_vars

\* ------------------------------------------------ a failing environment
\* Stock.price fails for `ticker` while a loop sizes its order: the lookup
\* ends in self.retrievePrice(), which Stock does not define, and the
\* exception leaves __getNumberOfSharesToInvest and rebalance; the loops and
\* the final refresh are not run.
QuoteFailure(ticker) ==
    /\ pc \in {"fresh", "adjust", "entry"}
    /\ ticker \in todo
    /\ pc' = "idle"
    /\ todo' = {}
    /\ returned' = FALSE
    /\ raised' = [call |-> calls, ticker |-> ticker]
    /\ UNCHANGED <<store, positions, stockWeights, value, orders, store0,
                   positions0, second, lastTx, calls, txs, rejects, unread>>
    /\ UNCHANGED <<cachevars, pairvars>>

\* The holdings page comes back without the holdings table (for instance
\* the page of an expired session): soup.find(...) is None, the
\* AttributeError is caught and allRows = [].
NoRows == {}

\* rebalance whose first position read fails.
RebalanceStartUnread(weights, worth) ==
    /\ RebalanceBegin(weights, worth, NoRows)
    /\ unread' = [call |-> calls', len |-> 0]
    /\ UNCHANGED <<raised, cachevars, pairvars>>

\* The position read at the end of a loop fails (one failed read per call
\* is recorded).
PhaseEndUnread(phase) ==
    /\ unread.call # calls
    /\ PhaseFinish(phase, NoRows)
    /\ unread' = [call |-> calls, len |-> Len(orders)]
    /\ UNCHANGED <<raised, cachevars, pairvars>>

FreshEndUnread ==
    /\ unread.call # calls
    /\ FreshFinish(NoRows)
    /\ unread' = [call |-> calls, len |-> Len(orders)]
    /\ UNCHANGED <<raised, cachevars, pairvars>>

\* A Game constructed while the position read fails or succeeds.
InitFaults ==
    /\ store \in InitStores
    /\ \E rows \in {HoldingsRows(store), NoRows} : Constructed(rows)
    /\ NoStock
    /\ OneGame

NextFaults ==
    \/ Next
    \/ \E t \in Tickers : QuoteFailure(t)
    \/ \E weights \in Targets, worth \in Worths : RebalanceStartUnread(weights, worth)
    \/ \E phase \in {"exit", "adjust", "entry"} : PhaseEndUnread(phase)
    \/ FreshEndUnread

SpecFaults == InitFaults /\ [][NextFaults]_vars

\* ------------------------------------------- legacy client: Stock.cache
\* if td.seconds > 5
CacheSeconds == 5

\* timedelta.seconds is the seconds field of the normalised difference
\* (days, seconds, microseconds): the whole days are not in it.
DaySeconds == 86400
Seconds(td) == td % DaySeconds

\* How long the clock moves between two operations on the Stock, and how
\* often it moves.
Delays == {1, CacheSeconds, CacheSeconds + 1, DaySeconds}
MaxAdvances == 4

\* Page data fetched at second `at`.
Data(at) == [some |-> TRUE, at |-> at]

\* Stock.fetch_data called at `at` on cache `c`; `ok`: requests.get returns.
\* The result is the new cache and the value returned (NoData: None).
FetchData(c, at, ok) ==
    IF Seconds(at - c.timestamp) > CacheSeconds
    THEN [cache |-> c, data |-> c.data]
    ELSE IF ok
         THEN [cache |-> [timestamp |-> at, data |-> Data(at)], data |-> Data(at)]
         ELSE [cache |-> c, data |-> NoData]

\* No Game is in use.
NoGameInUse ==
    /\ store = NoHoldings
    /\ Constructed(NoRows)
    /\ OneGame

\* Stock.__init__ at second 0: the cache is created with the current time
\* and no data, then fetch_data is called.
InitCache ==
    /\ NoGameInUse
    /\ now = 0
    /\ advances = 0
    /\ \E ok \in BOOLEAN :
          LET r == FetchData([timestamp |-> 0, data |-> NoData], 0, ok) IN
          /\ cache = r.cache
          /\ answer = [at |-> 0, data |-> r.data]

\* Time passes.
Advance(d) ==
    /\ advances < MaxAdvances
    /\ advances' = advances + 1
    /\ now' = now + d
    /\ UNCHANGED <<cache, answer>>
    /\ UNCHANGED <<gamevars, raised, unread, pairvars>>

\* A call of fetch_data.
FetchDataCall(ok) ==
    LET r == FetchData(cache, now, ok) IN
    /\ cache' = r.cache
    /\ answer' = [at |-> now, data |-> r.data]
    /\ UNCHANGED <<now, advances>>
    /\ UNCHANGED <<gamevars, raised, unread, pairvars>>

NextCache ==
    \/ \E d \in Delays : Advance(d)
    \/ \E ok \in BOOLEAN : FetchDataCall(ok)

SpecCache == InitCache /\ [][NextCache]_vars

\* ---------------------------------------------- two Games of a session
Games == {1, 2}

\* The Game whose steps are being run: its attributes, its account, and the
\* history kept about it.
Running ==
    [store |-> store, positions |-> positions, pc |-> pc,
     stockWeights |-> stockWeights, value |-> value, todo |-> todo,
     orders |-> orders, store0 |-> store0, positions0 |-> positions0,
     second |-> second, returned |-> returned, lastTx |-> lastTx,
     calls |-> calls, txs |-> txs, rejects |-> rejects]

\* VSESession.game(game_id) for an id not seen before: Game.__init__ on the
\* account `st` of that game.
NewGame(st) ==
    LET read == UpdatePositions(<<>>, HoldingsRows(st)) IN
    [store |-> st, positions |-> read, pc |-> "idle",
     stockWeights |-> <<>>, value |-> 0, todo |-> {},
     orders |-> <<>>, store0 |-> st, positions0 |-> read,
     second |-> FALSE, returned |-> FALSE, lastTx |-> "none",
     calls |-> 0, txs |-> 0, rejects |-> 0]

\* A positions dict that is an attribute of the class: one dict for all
\* Games, so a Game finds in it what the Game run before it left there.
ClassPositions(own, left) == left

\* self.positions = {} in __init__ : each Game has a dict of its own, and
\* finds in it what it put there itself.
InstancePositions(own, left) == own

\* The scheduler goes from one Game to the other between two steps.
Switch ==
    /\ other # NoGame
    /\ who' = IF who = 1 THEN 2 ELSE 1
    /\ other' = Running
    /\ store' = other.store
    /\ positions' = InstancePositions(other.positions, positions)
    /\ pc' = other.pc
    /\ stockWeights' = other.stockWeights
    /\ value' = other.value
    /\ todo' = other.todo
    /\ orders' = other.orders
    /\ store0' = other.store0
    /\ positions0' = other.positions0
    /\ second' = other.second
    /\ returned' = other.returned
    /\ lastTx' = other.lastTx
    /\ calls' = other.calls
    /\ txs' = other.txs
    /\ rejects' = other.rejects
    /\ UNCHANGED <<raised, unread, cachevars>>

\* Two Games of one session, each on its own account.
InitPair ==
    /\ store \in InitStores
    /\ Constructed(HoldingsRows(store))
    /\ NoStock
    /\ who = 1
    /\ other \in {NewGame(st) : st \in InitStores}

\* How many rebalance calls each of the two Games makes; the server accepts
\* every order of the two Games.
MaxPairCalls == 1

\* A rebalance call of the running Game.
PairRebalanceStart(weights, worth) ==
    /\ calls < MaxPairCalls
    /\ RebalanceStart(weights, worth)

NextPair ==
    \/ \E weights \in Targets, worth \in Worths : PairRebalanceStart(weights, worth)
    \/ \E t \in Tickers : FreshStep(t, TRUE)
    \/ \E t \in Tickers : ExitStep(t, TRUE)
    \/ \E t \in Tickers : AdjustStep(t, TRUE)
    \/ \E t \in Tickers : EntryStep(t, TRUE)
    \/ ExitEnd
    \/ AdjustEnd
    \/ EntryEnd
    \/ FreshEnd
    \/ Switch

SpecPair == InitPair /\ [][NextPair]_vars

\* What Game g is and has done: its attributes, account and order log.
GameState(g) == IF who = g THEN Running ELSE other

TypeOK ==
    /\ store \in [Tickers -> Int]
    /\ value \in Worths \cup {0}
    /\ DOMAIN positions \subseteq Tickers
    /\ pc \in {"idle", "fresh", "exit", "adjust", "entry"}
    /\ todo \subseteq Tickers

\* ============================================================== claims
\* The orders of the current / last rebalance call, by index.
RebalanceOrders == {i \in 1..Len(orders) : orders[i].phase # "user"}

\* The phase a ticker belongs to in a call, from the positions map the call
\* started with: 1 exit (held, not targeted), 2 adjust (held and targeted),
\* 3 entry (targeted, not held).
TickerClass(t) ==
    IF t \in DOMAIN positions0
    THEN IF t \in DOMAIN stockWeights THEN 2 ELSE 1
    ELSE 3

PhaseClass(phase) ==
    CASE phase = "exit" -> 1 [] phase = "adjust" -> 2 [] OTHER -> 3

\* The signed share change an order asks for.
SignedChange(o) == IF o.action \in {"Buy", "Cover"} THEN o.shares ELSE -o.shares

\* floor(weight * val / price), as the specification writes it.
FloorShares(t, weight, val) == (weight[1] * val) \div (weight[2] * Price[t])

\* C1: in a rebalance call that starts with a non-empty positions map, every
\* order closing a held, untargeted ticker is submitted before every order on
\* a held and targeted ticker, and those before every order on a targeted
\* ticker that is not held; with positions {A: 10, B: -5} and targets on A
\* and C the first order submitted is Cover 5 of B.
C1_ExitAdjustEntryOrder ==
    (calls > 0 /\ DOMAIN positions0 # {}) =>
        /\ \A i, j \in RebalanceOrders :
              i < j => TickerClass(orders[i].ticker) <= TickerClass(orders[j].ticker)
        /\ \A i \in RebalanceOrders :
              PhaseClass(orders[i].phase) = TickerClass(orders[i].ticker)
        /\ ( /\ DOMAIN positions0 = {"A", "B"}
             /\ positions0["A"] = 10 /\ positions0["B"] = -5
             /\ DOMAIN stockWeights = {"A", "C"}
             /\ RebalanceOrders # {} )
           => /\ orders[1].ticker = "B"
              /\ orders[1].action = "Cover"
              /\ orders[1].shares = 5

\* C1 witness: a call on positions {A: 10, B: -5} returned after one order
\* in each of the three phases.
C1_Witness ==
    /\ returned
    /\ DOMAIN positions0 = {"A", "B"}
    /\ Len(orders) = 3
    /\ orders[1].phase = "exit"
    /\ orders[2].phase = "adjust"
    /\ orders[3].phase = "entry"

\* C2: every adjust-phase order, for current signed position c and desired
\* signed share count d, is Cover if c < 0 and d > c, Short if c < 0 and
\* d <= c, Buy if c >= 0 and d > c, Sell if c >= 0 and d <= c, its quantity
\* is |c - d|, and as a signed change it takes c to d.
C2_AdjustBranchTable ==
    \A i \in RebalanceOrders :
        orders[i].phase = "adjust" =>
            LET o == orders[i]
                c == o.cur
                d == o.des
            IN  /\ (o.action = "Cover") <=> (c < 0 /\ d > c)
                /\ (o.action = "Short") <=> (c < 0 /\ d <= c)
                /\ (o.action = "Buy")   <=> (c >= 0 /\ d > c)
                /\ (o.action = "Sell")  <=> (c >= 0 /\ d <= c)
                /\ o.shares = (IF c >= d THEN c - d ELSE d - c)
                /\ c + SignedChange(o) = d

\* C2 witness: an adjust order that covers a short position across zero
\* (c = -5, d = 7 gives Cover 12).
C2_Witness ==
    \E i \in RebalanceOrders :
        /\ orders[i].phase = "adjust"
        /\ orders[i].cur = -5
        /\ orders[i].des = 7
        /\ orders[i].action = "Cover"
        /\ orders[i].shares = 12

\* Every order of the current / last rebalance call was accepted.
AllAccepted == \A i \in RebalanceOrders : orders[i].ok

\* The holdings the server reports, as a positions map.
Holdings(st) == [t \in {u \in Tickers : st[u] # 0} |-> st[t]]

\* C3: when rebalance returns after a call all of whose orders were accepted
\* the server holds
\* floor(weight * value / price) signed shares of every targeted ticker and
\* nothing of any other ticker.
C3_ReachesTarget ==
    (returned /\ AllAccepted) =>
        \A t \in Tickers :
            store[t] = IF t \in DOMAIN stockWeights
                       THEN FloorShares(t, stockWeights[t], value)
                       ELSE 0

\* C4: a rebalance call that directly follows a fully accepted call with the
\* same target weights and the same portfolio value submits no order with a
\* non-zero quantity.
C4_Idempotent ==
    second => \A i \in RebalanceOrders : orders[i].shares = 0

\* C5: the stored positions map equals the holdings the server reports (every
\* state of the model follows a position refresh that read the current
\* holdings): each held ticker maps to its signed share count and a ticker
\* that is no longer held is absent.
C5_PositionsMatchStore == positions = Holdings(store)

\* C6: every exit order closes a ticker that was held when the call began and
\* is not targeted, with Sell for a long and Cover for a short position and
\* the absolute share count as quantity; and once the exit phase is over every
\* such ticker has received exactly one exit order.
C6_ExitOrders ==
    /\ \A i \in RebalanceOrders :
          orders[i].phase = "exit" =>
              LET t == orders[i].ticker
              IN  /\ store0[t] # 0
                  /\ t \notin DOMAIN stockWeights
                  /\ orders[i].action = (IF store0[t] > 0 THEN "Sell" ELSE "Cover")
                  /\ orders[i].shares = Abs(store0[t])
    /\ pc \in {"adjust", "entry"} =>
          \A t \in Tickers :
              (store0[t] # 0 /\ t \notin DOMAIN stockWeights) =>
                  Cardinality({i \in RebalanceOrders :
                                  orders[i].phase = "exit" /\ orders[i].ticker = t}) = 1

\* C7: rebalance never submits an order with quantity zero.
C7_NoZeroQuantity == \A i \in RebalanceOrders : orders[i].shares # 0

\* C8, as amended: the desired share count is weight * value / price truncated
\* toward zero: the floor for a non-negative weight, the ceiling for a
\* negative one, so the sized position never exceeds the allotted dollars in
\* magnitude.
C8_SharesTruncated ==
    \A i \in RebalanceOrders :
        orders[i].phase # "exit" =>
            LET t == orders[i].ticker
                n == orders[i].des
                money == stockWeights[t][1] * value
                unit == stockWeights[t][2] * Price[t]
            IN  /\ money >= 0 => (n * unit <= money /\ money < (n + 1) * unit)
                /\ money < 0 => ((n - 1) * unit < money /\ money <= n * unit)
                /\ Abs(n) * unit <= Abs(money)

\* C8 as stated: the desired share count is floor(weight * value / price) for
\* every weight, and shares * price <= weight * value.
C8_SharesFloored ==
    \A i \in RebalanceOrders :
        orders[i].phase # "exit" =>
            LET t == orders[i].ticker
                n == orders[i].des
                money == stockWeights[t][1] * value
                unit == stockWeights[t][2] * Price[t]
            IN  /\ n * unit <= money
                /\ money < (n + 1) * unit

\* C8 witness: sizing a weight of -1/2 of 100 dollars at price 7 gives -7.
C8_Witness ==
    \E i \in RebalanceOrders :
        /\ orders[i].ticker = "B"
        /\ stockWeights["B"] = <<-1, 2>>
        /\ value = 100
        /\ orders[i].des = -7

\* C9: every order rebalance submits has an action of STOCK_ACTIONS and a
\* non-negative share quantity.
C9_OrdersWellFormed ==
    \A i \in RebalanceOrders :
        /\ orders[i].action \in STOCK_ACTIONS
        /\ orders[i].shares >= 0

\* C10: a rebalance call that starts when the account holds no position
\* submits only Buy orders, each of floor(weight * value / price) shares of a
\* targeted ticker, and has submitted exactly one for every targeted ticker
\* when it returns.
C10_FreshPortfolioBuysOnly ==
    (calls > 0 /\ store0 = NoHoldings) =>
        /\ \A i \in RebalanceOrders :
              /\ orders[i].action = "Buy"
              /\ orders[i].ticker \in DOMAIN stockWeights
              /\ orders[i].shares =
                    FloorShares(orders[i].ticker, stockWeights[orders[i].ticker], value)
        /\ returned =>
              \A t \in DOMAIN stockWeights :
                  Cardinality({i \in RebalanceOrders : orders[i].ticker = t}) = 1

\* Where a call is: 0 in the fresh-portfolio loop, 1 to 3 in the exit, adjust
\* and entry loops, 4 once it has returned.
Progress ==
    CASE pc = "fresh" -> 0 [] pc = "exit" -> 1 [] pc = "adjust" -> 2
      [] pc = "entry" -> 3 [] OTHER -> 4

\* The tickers a loop of the current call has to submit an order for, from
\* the positions map the call started with.
Expected(phase) ==
    IF (phase = "fresh") = (DOMAIN positions0 = {})
    THEN PhaseTickers(phase, positions0, stockWeights)
    ELSE {}

HasOrder(t, phase) ==
    \E i \in RebalanceOrders : orders[i].ticker = t /\ orders[i].phase = phase

\* C11: a rejected order does not halt rebalance: in a running or returned
\* call, every ticker of a loop that has been reached has had its order
\* submitted or is still to be visited by the running loop, whichever orders
\* were rejected; so a call that has returned has submitted all of them.
C11_FailureDoesNotHalt ==
    (pc # "idle" \/ returned) =>
        \A phase \in {"fresh", "exit", "adjust", "entry"} :
            \A t \in Expected(phase) :
                \/ HasOrder(t, phase)
                \/ pc = phase /\ t \in todo
                \/ phase # "fresh" /\ Progress < PhaseClass(phase)

\* C11 witness: a call returned with three orders, the first of which (an
\* exit order) was rejected.
C11_Witness ==
    /\ returned
    /\ Len(orders) = 3
    /\ ~orders[1].ok
    /\ orders[1].phase = "exit"
    /\ orders[2].phase = "adjust"
    /\ orders[3].phase = "entry"

\* C14: a direct transaction whose action is outside STOCK_ACTIONS submits no
\* order and leaves the positions map (and the account) unchanged.
C14_InvalidActionIgnored ==
    [][(txs' = txs + 1 /\ lastTx' \notin STOCK_ACTIONS) =>
          (orders' = <<>> /\ positions' = positions /\ store' = store)]_vars

\* C14 witness: a transaction with action "Hold" was made on a Game that has
\* positions.
C14_Witness ==
    /\ lastTx = "Hold"
    /\ orders = <<>>
    /\ DOMAIN positions # {}

\* C15: every share count a call sizes (fresh, adjust and entry loops) is
\* sized with one value, the one read when the call started: it lies within
\* one share of weight * value / price.
C15_OneValuePerCall ==
    \E v \in Worths \cup {0} :
        /\ v = value
        /\ \A i \in RebalanceOrders :
              orders[i].phase # "exit" =>
                  LET t == orders[i].ticker
                      money == stockWeights[t][1] * v
                      unit == stockWeights[t][2] * Price[t]
                  IN  /\ orders[i].des * unit - money < unit
                      /\ money - orders[i].des * unit < unit

\* C15 witness: a call returned after sizing two orders, the first of which
\* was accepted with a non-zero quantity, so that the account had changed
\* when the second was sized.
C15_Witness ==
    /\ returned
    /\ Len(orders) >= 2
    /\ orders[1].phase # "exit" /\ orders[1].ok /\ orders[1].shares # 0
    /\ orders[2].phase # "exit" /\ orders[2].des # 0

\* C16: every adjust decision uses as current position the holding the server
\* reported at the re-read after the exit phase, and every entry decision is
\* on a ticker the server did not report at the re-read after the adjust
\* phase.  (No order before a ticker's own decision changes its holding, so
\* both re-reads report for it what the account held when the call began.)
C16_DecisionsUseReread ==
    \A i \in RebalanceOrders :
        /\ orders[i].phase = "adjust" =>
              /\ store0[orders[i].ticker] # 0
              /\ orders[i].cur = store0[orders[i].ticker]
        /\ orders[i].phase = "entry" => store0[orders[i].ticker] = 0

\* C18: a rebalance call submits at most one order per ticker.
C18_OneOrderPerTicker ==
    \A t \in Tickers :
        Cardinality({i \in RebalanceOrders : orders[i].ticker = t}) <= 1

\* C18 witness: a call returned after an accepted adjust order that brought a
\* targeted position to zero, and after a rejected order.
C18_Witness ==
    /\ returned
    /\ \E i \in RebalanceOrders :
          /\ orders[i].phase = "adjust"
          /\ orders[i].ok
          /\ orders[i].shares # 0
          /\ store[orders[i].ticker] = 0
    /\ \E i \in RebalanceOrders : ~orders[i].ok

\* C12: when a price lookup fails for a ticker during a call, no order is
\* submitted for that ticker and the call still submits the order of every
\* other ticker of its loops.
C12_QuoteFailureSkipsOneTicker ==
    (calls > 0 /\ raised.call = calls /\ pc = "idle" /\ lastTx = "none") =>
        /\ \A i \in RebalanceOrders : orders[i].ticker # raised.ticker
        /\ \A phase \in {"fresh", "exit", "adjust", "entry"} :
              \A t \in Expected(phase) \ {raised.ticker} : HasOrder(t, phase)

\* C13: when a position read fails during a call the pass is aborted: the
\* call is over, and it has submitted no order after the failed read (so a
\* failed first read never leads into the fresh-portfolio loop or into
\* decisions on the positions of an earlier read).
C13_ReadFailureAborts ==
    (calls > 0 /\ unread.call = calls) =>
        /\ pc = "idle"
        /\ Cardinality(RebalanceOrders) <= unread.len

\* C19: the page data a fetch_data call of the legacy Stock returns was
\* fetched at most 5 seconds before the call.
C19_ReturnedDataIsFresh ==
    answer.data.some => answer.at - answer.data.at <= CacheSeconds

\* C17: rebalances of two Games of one session are independent under any
\* interleaving of their steps: the attributes of a Game (its positions map
\* among them), its account and the orders it has submitted change only in
\* its own steps, which are the steps it takes when it runs alone; a step of
\* the other Game, and the passage from one Game to the other, leave them
\* as they are.
C17_GamesIndependent ==
    [][\A g \in Games :
          (who # g \/ who' # g) => GameState(g)' = GameState(g)]_vars

\* Both Games are in the middle of a rebalance and have submitted orders.
C17_Witness ==
    /\ other # NoGame
    /\ pc \notin {"idle"} /\ other.pc \notin {"idle"}
    /\ \E i \in 1..Len(orders) : orders[i].ok
    /\ \E i \in 1..Len(other.orders) : other.orders[i].ok
    /\ positions # other.positions

====
